---- MODULE Spec2Model ----
(***************************************************************************)
(* Model of the selection-and-summarization pipeline of blog-summarizer:   *)
(*   - NewsSelector (src/src/feeds/selector.py): scoring, ranking, the     *)
(*     category-diversity pass and backfill;                               *)
(*   - GeminiSummarizer.summarize_items_batch                              *)
(*     (src/src/summarizer/gemini_client.py): the retry / model-fallback   *)
(*     loop around the backend call and the batch validator;               *)
(*   - run_workflow (src/src/main.py): the steps of one run and the        *)
(*     last-run timestamp kept by RSSFeedManager.                          *)
(* Strings are modelled by what the code looks at: their truthiness and    *)
(* their length.  Scores are integers in units of 1e-4.                    *)
(***************************************************************************)
EXTENDS Integers, Sequences, FiniteSets, TLC

(***************************************************************************)
(* Bounds of the model.                                                    *)
(***************************************************************************)
MaxItems == 5
MaxTopN == 4
MaxBatch == 2
MaxRetries == 3
MaxTicks == 2
MaxEvaluations == 2

(***************************************************************************)
(* Static configuration.                                                   *)
(***************************************************************************)
\* None of an Optional[str]
None == "None"
\* None of an optional number (published_date, description length, top_n)
Null == -1

(***************************************************************************)
(* A Python str is modelled by a name for its text and by the numbers the  *)
(* code looks at: junk is the number of characters that _clean_text would  *)
(* remove from it (boilerplate prefix, emoji, surplus whitespace), len the *)
(* number of characters that remain, periods the offsets of "." among the  *)
(* remaining ones.  Every period but one at the very end is followed by a  *)
(* single space.                                                           *)
(***************************************************************************)
Str(text, junk, len, periods) ==
    [t |-> "str", text |-> text, junk |-> junk, len |-> len, periods |-> periods]

\* len(s)
PyLen(s) == s.junk + s.len

\* s[:n] of a string without junk
Cut(s, n) ==
    IF s.len <= n THEN s
    ELSE [s EXCEPT !.len = n, !.periods = { q \in s.periods : q < n }]

\* Settings.top_n_items default (config.py)
TopNItemsDefault == 5

\* feeds.yaml as read by FeedConfig.feeds: category and priority (in
\* thousandths; Null when the feed has no "priority" key)
Feeds ==
    << [category |-> "tech", priority |-> 1200],
       [category |-> "world", priority |-> 1000],
       [category |-> "sport", priority |-> 1112],
       [category |-> "local", priority |-> Null] >>

Categories == {"tech", "world"}

(***************************************************************************)
(* FeedItem (models.py).  id is the hash of title+link, so the article     *)
(* fields (title, image_url, published_date, description) go with the id;  *)
(* the category is the one of the feed that delivered the item.            *)
(* published_date is in hours, description is represented by its length.   *)
(***************************************************************************)
Articles ==
    { [id |-> "a1", title |-> Str("title a1", 0, 50, {}),
       image_url |-> "http://img/1", published_date |-> 99, description |-> 200],
      [id |-> "a2", title |-> Str("title a2", 0, 90, {}),
       image_url |-> "http://img/2", published_date |-> Null, description |-> 20],
      [id |-> "a3", title |-> Str("title a3", 0, 65, {}),
       image_url |-> None, published_date |-> 90, description |-> Null],
      [id |-> "a4", title |-> Str("title a4", 0, 66, {}),
       image_url |-> "", published_date |-> 99, description |-> 600],
      [id |-> "a5", title |-> Str("title a5", 0, 65, {}),
       image_url |-> "http://img/5", published_date |-> 60, description |-> 20] }

\* what each configured feed can deliver: the feed tags the article with its
\* own category
FeedArticles ==
    [tech |-> {"a1", "a2", "a3", "a5"}, world |-> {"a1", "a2", "a4"}]

FeedItem ==
    UNION { { [id |-> a.id, title |-> a.title, category |-> c, image_url |-> a.image_url,
               published_date |-> a.published_date, description |-> a.description] :
                  a \in { b \in Articles : b.id \in FeedArticles[c] } } :
            c \in Categories }

\* datetime.utcnow() at the time of scoring, in hours
Nows == {100, 106}

SeqsUpTo(S, n) == UNION { [1..k -> S] : k \in 0..n }

Range(s) == { s[i] : i \in 1..Len(s) }

\* Python truthiness of an Optional[str]
Truthy(x) == x # None /\ x # ""

VARIABLES
    items,          \* argument of select_top_items
    top_n,          \* argument of select_top_items (None when omitted)
    settings_top_n, \* Settings.top_n_items
    now,            \* clock read by _calculate_recency_score
    selected,       \* return value of select_top_items
    sel_pc,         \* "idle", "call" before the call, "done" after it
    batch,          \* argument items of summarize_items_batch
    max_retries,    \* argument max_retries of summarize_items_batch
    model_name,     \* self.model_name (Settings.gemini_model)
    current_model,  \* local current_model
    attempt,        \* loop variable of "for attempt in range(max_retries)"
    events,         \* history: the backend calls and the sleeps, in order
    summaries,      \* return value of summarize_items_batch
    raised,         \* TRUE when the invocation ended by an exception
    cl_pc,          \* "idle", "start", "loop", "done"
    batch_prompt,   \* local batch_prompt, built before the loop
    submitted,      \* history: the argument of every generate_content call
    response_text,  \* history: the text the returned summaries were parsed from
    v_response,     \* argument response_text of _parse_batch_response
    v_items,        \* argument items of _parse_batch_response
    v_result,       \* return value of _parse_batch_response
    v_pc,           \* "idle", "call" before the call, "done" after it
    sc_item,        \* argument item of calculate_score
    sc_clock,       \* datetime.utcnow(), in hours
    sc_scores,      \* history: the time and the return value of every evaluation
    gemini_api_key,   \* Settings.gemini_api_key
    skip_time_filter, \* argument of run_workflow (--no-filter)
    last_run_file,    \* contents of data/last_run.json
    file_at_start,    \* history: last_run_file when the run began
    _last_run,        \* feed_manager._last_run (Null before the manager exists)
    parsed_feeds,     \* local parsed_feeds
    new_items,        \* local new_items
    selected_items,   \* local selected_items
    wf_summaries,     \* local summaries
    posts,            \* local posts: the feed_item_id of every post
    wf_log,           \* history: the steps of the run that touch the outside
    wf_raised,        \* TRUE when the run ended by an exception
    wf_pc             \* position in run_workflow

sel_vars == <<items, top_n, settings_top_n, now, selected, sel_pc>>

cl_vars == <<batch, max_retries, model_name, current_model, attempt, events,
             summaries, raised, cl_pc, batch_prompt, submitted, response_text>>

v_vars == <<v_response, v_items, v_result, v_pc>>

sc_vars == <<sc_item, sc_clock, sc_scores>>

wf_vars == <<gemini_api_key, skip_time_filter, last_run_file, file_at_start, _last_run,
             parsed_feeds, new_items, selected_items, wf_summaries, posts, wf_log,
             wf_raised, wf_pc>>

vars == <<sel_vars, cl_vars, v_vars, sc_vars, wf_vars>>

(***************************************************************************)
(* Scorer                                                                  *)
(***************************************************************************)
\* in tenths
_calculate_recency_score(item, t) ==
    IF item.published_date = Null THEN 5
    ELSE LET age == t - item.published_date IN
         IF age < 1 THEN 10
         ELSE IF age < 6 THEN 9
         ELSE IF age < 12 THEN 8
         ELSE IF age < 24 THEN 7
         ELSE IF age < 48 THEN 5
         ELSE IF age < 168 THEN 3
         ELSE 1

\* the first feed of the item's category decides; feed.get("priority", 1.0)
RECURSIVE PriorityFrom(_, _)
PriorityFrom(i, item) ==
    IF i > Len(Feeds) THEN 1000
    ELSE IF Feeds[i].category = item.category
         THEN IF Feeds[i].priority = Null THEN 1000 ELSE Feeds[i].priority
    ELSE PriorityFrom(i + 1, item)

\* in thousandths
_get_source_priority(item) == PriorityFrom(1, item)

\* in tenths
_has_image_bonus(item) == IF Truthy(item.image_url) THEN 12 ELSE 10

\* in tenths
_description_quality_score(item) ==
    IF item.description = Null \/ item.description = 0 THEN 5
    ELSE IF item.description < 50 THEN 6
    ELSE IF item.description < 100 THEN 8
    ELSE IF item.description < 500 THEN 10
    ELSE 9

\* round(x, 4) of a non-negative x given in units of 1e-6, in units of 1e-4:
\* to the nearest, a tie to the even neighbour
Round4(x) ==
    LET q == x \div 100
        r == x % 100
    IN IF r > 50 THEN q + 1
       ELSE IF r < 50 THEN q
       ELSE IF q % 2 = 0 THEN q ELSE q + 1

\* variant: the score is cut to 4 decimals instead of rounded
calculate_score_Truncated(item, t) ==
    ((4 * _calculate_recency_score(item, t) + 3 * _description_quality_score(item) + 30)
        * _get_source_priority(item) * _has_image_bonus(item)) \div 100

\* in units of 1e-4: round((0.4 r + 0.3 q + 0.3) * priority * image_bonus, 4)
calculate_score(item, t) ==
    Round4((4 * _calculate_recency_score(item, t) + 3 * _description_quality_score(item) + 30)
               * _get_source_priority(item) * _has_image_bonus(item))

(***************************************************************************)
(* Selector                                                                *)
(***************************************************************************)
\* sorted(..., reverse=True) is stable: an element goes after every element
\* whose score is at least its own
\* variant: an element goes before the elements of equal score
RECURSIVE InsertScored_BeforeEqual(_, _)
InsertScored_BeforeEqual(sorted, p) ==
    IF sorted = << >> THEN << p >>
    ELSE IF Head(sorted).score > p.score
         THEN << Head(sorted) >> \o InsertScored_BeforeEqual(Tail(sorted), p)
         ELSE << p >> \o sorted

RECURSIVE InsertScored(_, _)
InsertScored(sorted, p) ==
    IF sorted = << >> THEN << p >>
    ELSE IF Head(sorted).score >= p.score
         THEN << Head(sorted) >> \o InsertScored(Tail(sorted), p)
         ELSE << p >> \o sorted

RECURSIVE SortScored(_, _)
SortScored(scored, i) ==
    IF i = 0 THEN << >>
    ELSE InsertScored(SortScored(scored, i - 1), scored[i])

rank_items(its, t) ==
    LET scored_items == [i \in 1..Len(its) |->
                            [item |-> its[i], score |-> calculate_score(its[i], t)]]
    IN SortScored(scored_items, Len(scored_items))

CategoryCount(sel, c) == Cardinality({ i \in 1..Len(sel) : sel[i].category = c })

max_per_category(n) == IF n \div 2 > 2 THEN n \div 2 ELSE 2

\* variant of the first loop: the category limit tested with > instead of >=
RECURSIVE DiversityPass_LimitOffByOne(_, _, _, _)
DiversityPass_LimitOffByOne(scored, n, i, sel) ==
    IF i > Len(scored) \/ Len(sel) >= n THEN sel
    ELSE IF CategoryCount(sel, scored[i].item.category) > max_per_category(n)
         THEN DiversityPass_LimitOffByOne(scored, n, i + 1, sel)
         ELSE DiversityPass_LimitOffByOne(scored, n, i + 1, Append(sel, scored[i].item))

\* the first loop of ensure_category_diversity, from position i on
RECURSIVE DiversityPass(_, _, _, _)
DiversityPass(scored, n, i, sel) ==
    IF i > Len(scored) \/ Len(sel) >= n THEN sel
    ELSE IF CategoryCount(sel, scored[i].item.category) >= max_per_category(n)
         THEN DiversityPass(scored, n, i + 1, sel)
         ELSE DiversityPass(scored, n, i + 1, Append(sel, scored[i].item))

\* variant of the second loop: the break on len(selected) >= top_n is missing
RECURSIVE Backfill_NoBreak(_, _, _, _)
Backfill_NoBreak(scored, n, i, sel) ==
    IF i > Len(scored) THEN sel
    ELSE Backfill_NoBreak(scored, n, i + 1,
                          IF scored[i].item \notin Range(sel)
                          THEN Append(sel, scored[i].item) ELSE sel)

\* the second loop of ensure_category_diversity, from position i on
RECURSIVE Backfill(_, _, _, _)
Backfill(scored, n, i, sel) ==
    IF i > Len(scored) THEN sel
    ELSE LET sel2 == IF scored[i].item \notin Range(sel)
                     THEN Append(sel, scored[i].item) ELSE sel
         IN IF Len(sel2) >= n THEN sel2 ELSE Backfill(scored, n, i + 1, sel2)

\* variant: the list is sorted by score once more after backfill
ensure_category_diversity_Resorted(scored, n) ==
    IF Len(scored) <= n THEN [i \in 1..Len(scored) |-> scored[i].item]
    ELSE LET sel == DiversityPass(scored, n, 1, << >>)
             res == IF Len(sel) < n THEN Backfill(scored, n, 1, sel) ELSE sel
             ScoreOf(it) == scored[CHOOSE i \in 1..Len(scored) : scored[i].item = it].score
             again == SortScored([k \in 1..Len(res) |->
                                     [item |-> res[k], score |-> ScoreOf(res[k])]], Len(res))
         IN [k \in 1..Len(again) |-> again[k].item]

ensure_category_diversity(scored, n) ==
    IF Len(scored) <= n THEN [i \in 1..Len(scored) |-> scored[i].item]
    ELSE LET sel == DiversityPass(scored, n, 1, << >>)
         IN IF Len(sel) < n THEN Backfill(scored, n, 1, sel) ELSE sel

\* top_n = top_n or self.settings.top_n_items
EffectiveTopN(n, dflt) == IF n = Null \/ n = 0 THEN dflt ELSE n

\* variant: the image filter lets every item through
items_with_images_NoFilter(its) == its

\* variant: only a missing image_url is filtered out, an empty one passes
items_with_images_NoneOnly(its) == SelectSeq(its, LAMBDA it : it.image_url # None)

items_with_images(its) == SelectSeq(its, LAMBDA it : Truthy(it.image_url))

select_top_items(its, n, dflt, t) ==
    IF its = << >> THEN << >>
    ELSE IF items_with_images(its) = << >> THEN << >>
    ELSE ensure_category_diversity(rank_items(items_with_images(its), t),
                                   EffectiveTopN(n, dflt))

\* the component is not running
SelectorIdle ==
    /\ items = << >>
    /\ top_n = Null
    /\ settings_top_n = TopNItemsDefault
    /\ now = 100
    /\ selected = << >>
    /\ sel_pc = "idle"

\* the component is not running
ClientIdle ==
    /\ batch = << >>
    /\ max_retries = 0
    /\ model_name = "gemini-2.5-pro"
    /\ current_model = "gemini-2.5-pro"
    /\ attempt = 0
    /\ events = << >>
    /\ summaries = << >>
    /\ raised = FALSE
    /\ cl_pc = "idle"
    /\ batch_prompt = << >>
    /\ submitted = << >>
    /\ response_text = [kind |-> "none"]

\* the component is not running
ScorerIdle ==
    /\ sc_item = [category |-> "none"]
    /\ sc_clock = 0
    /\ sc_scores = << >>

\* no run is in progress
WorkflowIdle ==
    /\ gemini_api_key = "key"
    /\ skip_time_filter = FALSE
    /\ last_run_file = [state |-> "missing"]
    /\ file_at_start = [state |-> "missing"]
    /\ _last_run = Null
    /\ parsed_feeds = << >>
    /\ new_items = << >>
    /\ selected_items = << >>
    /\ wf_summaries = << >>
    /\ posts = << >>
    /\ wf_log = << >>
    /\ wf_raised = FALSE
    /\ wf_pc = "idle"

\* the component is not running
ValidatorIdle ==
    /\ v_response = [kind |-> "none"]
    /\ v_items = << >>
    /\ v_result = [none |-> TRUE, results |-> << >>]
    /\ v_pc = "idle"

(***************************************************************************)
(* Response validator (_clean_text, _format_caption_paragraphs,            *)
(* _parse_batch_response)                                                  *)
(*                                                                         *)
(* A backend text is one of                                                *)
(*   [kind |-> "no_array"]   no "[...]" substring in it,                   *)
(*   [kind |-> "bad_json"]   a "[...]" substring that json.loads rejects,  *)
(*   [kind |-> "array", data |-> <<element, ...>>]                         *)
(* and an element of the array is a JSON object (kind "object") or a JSON  *)
(* value that is no object (kind "other").  A field of an object is        *)
(* Absent, JNull (JSON null), a string (Str) or, for hashtags, a string of *)
(* characters (Chars) or a list of such strings (Tags).                    *)
(***************************************************************************)
CaptionMin == 1200
CaptionMax == 1400
TitleMax == 65
HashtagMax == 15
NumParagraphs == 4

Absent == [t |-> "absent"]
JNull == [t |-> "null"]
Chars(cs) == [t |-> "chars", chars |-> cs]
Tags(ts) == [t |-> "list", tags |-> ts]

Obj(title, description, caption, hashtags, source) ==
    [kind |-> "object", title |-> title, description |-> description,
     caption |-> caption, hashtags |-> hashtags, source |-> source]

\* data.get(field, default)
Get(v, default) == IF v = Absent THEN default ELSE v

EmptyStr == Str("", 0, 0, {})

\* "if not text: return text", else prefixes, emoji and surplus whitespace go
_clean_text(v) ==
    IF v = JNull THEN JNull
    ELSE IF PyLen(v) = 0 THEN v
    ELSE [v EXCEPT !.junk = 0]

\* ---- str.strip, str.split, str.replace on strings of characters ----
Whitespace == {" ", "\t"}

RECURSIVE LStrip(_, _)
LStrip(cs, P) ==
    IF cs # << >> /\ Head(cs) \in P THEN LStrip(Tail(cs), P) ELSE cs

RECURSIVE RStrip(_, _)
RStrip(cs, P) ==
    IF cs # << >> /\ cs[Len(cs)] \in P THEN RStrip(SubSeq(cs, 1, Len(cs) - 1), P) ELSE cs

\* h.strip()
PyStrip(cs) == RStrip(LStrip(cs, Whitespace), Whitespace)

\* h.strip("#")
StripHash(cs) == RStrip(LStrip(cs, {"#"}), {"#"})

\* h.replace(" ", "")
RemoveSpaces(cs) == SelectSeq(cs, LAMBDA c : c # " ")

\* hashtags.split(","), the piece under construction being cur
RECURSIVE SplitFrom(_, _, _)
SplitFrom(cs, i, cur) ==
    IF i > Len(cs) THEN << cur >>
    ELSE IF cs[i] = "," THEN << cur >> \o SplitFrom(cs, i + 1, << >>)
    ELSE SplitFrom(cs, i + 1, Append(cur, cs[i]))

SplitCommas(cs) == SplitFrom(cs, 1, << >>)

\* [h.strip().strip("#").replace(" ", "") for h in hashtags if h.strip()][:15]
CleanTags(ts) ==
    LET kept == SelectSeq(ts, LAMBDA h : PyStrip(h) # << >>)
        cleaned == [i \in 1..Len(kept) |-> RemoveSpaces(StripHash(PyStrip(kept[i])))]
    IN SubSeq(cleaned, 1, IF Len(cleaned) < HashtagMax THEN Len(cleaned) ELSE HashtagMax)

\* "if isinstance(hashtags, str)": split at the commas and strip every piece
Hashtags(v) ==
    IF v.t = "chars"
    THEN LET pieces == SplitCommas(v.chars)
         IN CleanTags([i \in 1..Len(pieces) |-> StripHash(PyStrip(pieces[i]))])
    ELSE CleanTags(v.tags)

\* ---- caption ----
\* variant: the cut is taken at a period at offset 1200 as well
TruncateCaption_AtOrAfterMin(c) ==
    IF c.len > CaptionMax
    THEN LET before == { q \in c.periods : q < CaptionMax }
             last_period == IF before = {} THEN -1
                            ELSE CHOOSE q \in before : \A r \in before : r <= q
             keep == IF last_period >= CaptionMin THEN last_period + 1 ELSE CaptionMax
         IN [c EXCEPT !.len = keep, !.periods = { q \in c.periods : q < keep }]
    ELSE c

\* caption[:1400], then cut after the last period if it lies beyond 1200
TruncateCaption(c) ==
    IF c.len > CaptionMax
    THEN LET before == { q \in c.periods : q < CaptionMax }
             last_period == IF before = {} THEN -1
                            ELSE CHOOSE q \in before : \A r \in before : r <= q
             keep == IF last_period > CaptionMin THEN last_period + 1 ELSE CaptionMax
         IN [c EXCEPT !.len = keep, !.periods = { q \in c.periods : q < keep }]
    ELSE c

\* length of caption.strip(): a cut right after "period, space" leaves a
\* trailing space
StrippedLen(c) == IF (c.len - 2) \in c.periods THEN c.len - 1 ELSE c.len

\* the periods at which re.split(r'(?<=[.!?])\s+', ...) splits, in order
RECURSIVE SortedSeq(_)
SortedSeq(S) ==
    IF S = {} THEN << >>
    ELSE LET m == CHOOSE x \in S : \A y \in S : x <= y
         IN << m >> \o SortedSeq(S \ {m})

SentenceEnds(c) == SortedSeq({ q \in c.periods : q < StrippedLen(c) - 1 })

\* len(sentence) of every sentence
SentenceLens(c) ==
    LET ends == SentenceEnds(c)
        n == Len(ends)
    IN [k \in 1..(n + 1) |->
           IF k = 1 THEN (IF n = 0 THEN StrippedLen(c) ELSE ends[1] + 1)
           ELSE IF k <= n THEN ends[k] - ends[k - 1] - 1
           ELSE StrippedLen(c) - ends[n] - 2]

\* the grouping loop from sentence k on: closed is len(paragraphs), cur the
\* value of current_length, open is TRUE when current_para is not empty,
\* breaks the sentence numbers after which a paragraph was closed
RECURSIVE GroupFrom(_, _, _, _, _, _, _)
GroupFrom(lens, target, k, closed, cur, open, breaks) ==
    IF k > Len(lens)
    THEN [paragraphs |-> IF open THEN closed + 1 ELSE closed, breaks |-> breaks]
    ELSE IF cur + lens[k] >= target /\ closed < NumParagraphs - 1
         THEN GroupFrom(lens, target, k + 1, closed + 1, 0, FALSE, breaks \cup {k})
         ELSE GroupFrom(lens, target, k + 1, closed, cur + lens[k], TRUE, breaks)

\* a caption of the validator never holds "\n\n" (it went through
\* _clean_text); with more than 4 sentences the sentences of a paragraph are
\* joined by " " and the paragraphs by "\n\n", one character more per break
_format_caption_paragraphs(c) ==
    IF c.len = 0 THEN c
    ELSE IF Len(SentenceLens(c)) <= NumParagraphs THEN c
    ELSE LET g == GroupFrom(SentenceLens(c), c.len \div NumParagraphs, 1, 0, 0, FALSE, {})
             ends == SentenceEnds(c)
             \* a break after the last sentence joins nothing
             inner == { k \in g.breaks : k < Len(SentenceLens(c)) }
             shift(q) == Cardinality({ k \in inner : ends[k] < q })
         IN [c EXCEPT !.len = StrippedLen(c) + g.paragraphs - 1,
                      !.periods = { q + shift(q) : q \in { r \in c.periods : r < StrippedLen(c) } }]

\* the value None of Optional[list[SummaryResult]]
NoSummaries == [none |-> TRUE, results |-> << >>]

SummaryResult(title, description, caption, hashtags, source, feed_item_id) ==
    [title |-> title, description |-> description, caption |-> caption,
     hashtags |-> hashtags, source |-> source, feed_item_id |-> feed_item_id]

\* self._clean_text(data.get("source", "Unknown"))
Source(v) == _clean_text(Get(v, Str("Unknown", 0, 7, {})))

\* variant: the generated title is used whenever there is one
Title_PreferGenerated(item, generated_title) ==
    IF generated_title # JNull /\ PyLen(generated_title) > 0
    THEN Cut(generated_title, TitleMax)
    ELSE Cut(item.title, TitleMax)

\* "if len(item.title) <= 65: title = item.title[:65]
\*  else: title = generated_title[:65]"; None[:65] raises
Title(item, generated_title) ==
    IF PyLen(item.title) <= TitleMax THEN Cut(item.title, TitleMax)
    ELSE IF generated_title = JNull THEN JNull
    ELSE Cut(generated_title, TitleMax)

\* one iteration of the loop over zip(data_array, items): "raise" when a
\* statement of the body raises (the outer handler then returns None),
\* "skip" at the continue, "ok" with the SummaryResult appended
ParseElement(data, item) ==
    IF data.kind # "object" THEN [status |-> "raise"]
    ELSE LET generated_title == _clean_text(Get(data.title, EmptyStr))
             title == Title(item, generated_title)
             description == _clean_text(Get(data.description, EmptyStr))
             caption == _clean_text(Get(data.caption, EmptyStr))
             hashtags == Get(data.hashtags, Tags(<< >>))
             source == Source(data.source)
         IN IF title = JNull \/ description = JNull \/ caption = JNull
            THEN [status |-> "raise"]
            ELSE IF caption.len <= CaptionMax /\ caption.len < CaptionMin
            THEN [status |-> "skip"]
            ELSE IF hashtags = JNull \/ source = JNull
            THEN [status |-> "raise"]
            ELSE [status |-> "ok",
                  result |-> SummaryResult(title, description,
                                 _format_caption_paragraphs(TruncateCaption(caption)),
                                 Hashtags(hashtags), source, item.id)]

\* variant: an element whose processing raises is skipped like a short caption
RECURSIVE ParseLoop_SkipMalformed(_, _, _, _)
ParseLoop_SkipMalformed(data, its, i, results) ==
    IF i > Len(data) \/ i > Len(its) THEN [none |-> FALSE, results |-> results]
    ELSE LET r == ParseElement(data[i], its[i])
         IN IF r.status = "ok"
            THEN ParseLoop_SkipMalformed(data, its, i + 1, Append(results, r.result))
            ELSE ParseLoop_SkipMalformed(data, its, i + 1, results)

\* variant: a short caption is passed on instead of skipped
RECURSIVE ParseLoop_KeepsShort(_, _, _, _)
ParseLoop_KeepsShort(data, its, i, results) ==
    IF i > Len(data) \/ i > Len(its) THEN [none |-> FALSE, results |-> results]
    ELSE LET r == ParseElement(data[i], its[i])
         IN IF r.status = "raise" THEN NoSummaries
            ELSE IF r.status = "skip"
            THEN ParseLoop_KeepsShort(data, its, i + 1,
                     Append(results, SummaryResult(its[i].title, EmptyStr, EmptyStr,
                                                   << >>, EmptyStr, its[i].id)))
            ELSE ParseLoop_KeepsShort(data, its, i + 1, Append(results, r.result))

\* variant: a new result is put in front of the list
RECURSIVE ParseLoop_Prepends(_, _, _, _)
ParseLoop_Prepends(data, its, i, results) ==
    IF i > Len(data) \/ i > Len(its) THEN [none |-> FALSE, results |-> results]
    ELSE LET r == ParseElement(data[i], its[i])
         IN IF r.status = "raise" THEN NoSummaries
            ELSE IF r.status = "skip" THEN ParseLoop_Prepends(data, its, i + 1, results)
            ELSE ParseLoop_Prepends(data, its, i + 1, << r.result >> \o results)

\* the loop over zip(data_array, items), from position i on
RECURSIVE ParseLoop(_, _, _, _)
ParseLoop(data, its, i, results) ==
    IF i > Len(data) \/ i > Len(its) THEN [none |-> FALSE, results |-> results]
    ELSE LET r == ParseElement(data[i], its[i])
         IN IF r.status = "raise" THEN NoSummaries
            ELSE IF r.status = "skip" THEN ParseLoop(data, its, i + 1, results)
            ELSE ParseLoop(data, its, i + 1, Append(results, r.result))

_parse_batch_response(response, its) ==
    IF response.kind # "array" THEN NoSummaries
    ELSE ParseLoop(response.data, its, 1, << >>)

\* ---- backend texts ----
GoodTitle == Str("generated title", 0, 60, {})
GoodDescription == Str("description", 0, 200, {})
GoodTags == Tags(<< <<"a">>, <<"a", "a">> >>)
GoodSource == Str("BBC", 0, 3, {})

Captions ==
    { Str("short", 0, 1199, {1198}),
      Str("fine", 0, 1300, {600, 1299}),
      Str("long", 0, 1500, {700, 1250, 1499}) }

GoodObj(c) == Obj(GoodTitle, GoodDescription, c, GoodTags, GoodSource)

Elements ==
    { [kind |-> "other"] } \cup { GoodObj(c) : c \in Captions }

Responses ==
    { [kind |-> "no_array"], [kind |-> "bad_json"] }
        \cup { [kind |-> "array", data |-> d] : d \in SeqsUpTo(Elements, MaxBatch) }

(***************************************************************************)
(* Summarization client (summarize_items_batch)                            *)
(***************************************************************************)
\* self.fallback_model
fallback_model == "gemini-3-flash-preview"

\* values of Settings.gemini_model: the default and the fallback's own name
Models == {"gemini-2.5-pro", "gemini-3-flash-preview"}

RECURSIVE Pow2(_)
Pow2(n) == IF n = 0 THEN 1 ELSE 2 * Pow2(n - 1)

Call(m, a, o, n) == [type |-> "call", model |-> m, attempt |-> a, outcome |-> o, results |-> n]

Sleep(d) == [type |-> "sleep", model |-> "", attempt |-> -1, outcome |-> "", results |-> d]

\* variant: the delay grows linearly (2 * attempt)
Backoff_Linear(a, mr) == IF a < mr - 1 THEN << Sleep(2 * a) >> ELSE << >>

\* "if attempt < max_retries - 1: time.sleep(2 ** attempt)"
Backoff(a, mr) == IF a < mr - 1 THEN << Sleep(Pow2(a)) >> ELSE << >>

\* variant: only a complete batch is returned, a partial one is retried
Usable_CompleteOnly(parsed) == ~parsed.none /\ Len(parsed.results) = Len(batch)

\* "if summaries: return summaries": a non-empty list ends the invocation
Usable(parsed) == ~parsed.none /\ parsed.results # << >>

\* variant: the retry on the fallback model does not use up an attempt
OnQuota_FreeRetry(cm, a, mr) ==
    IF cm # fallback_model
    THEN [model |-> fallback_model, sleeps |-> << >>, next |-> a]
    ELSE [model |-> cm, sleeps |-> Backoff(a, mr), next |-> a + 1]

\* variant: the switch to the fallback model backs off like any other error
OnQuota_BackoffOnSwitch(cm, a, mr) ==
    IF cm # fallback_model
    THEN [model |-> fallback_model, sleeps |-> Backoff(a, mr), next |-> a + 1]
    ELSE [model |-> cm, sleeps |-> Backoff(a, mr), next |-> a + 1]

\* variant: a quota error on the fallback model goes back to the primary
OnQuota_SwitchesBack(cm, a, mr) ==
    IF cm # fallback_model
    THEN [model |-> fallback_model, sleeps |-> << >>, next |-> a + 1]
    ELSE [model |-> model_name, sleeps |-> Backoff(a, mr), next |-> a + 1]

\* the ResourceExhausted handler: the model of the next iteration, the
\* sleeps made before it and the value of attempt in it ("continue" and
\* falling out of the handler both go on to the next value of the range)
OnQuota(cm, a, mr) ==
    IF cm # fallback_model
    THEN [model |-> fallback_model, sleeps |-> << >>, next |-> a + 1]
    ELSE [model |-> cm, sleeps |-> Backoff(a, mr), next |-> a + 1]

\* the generic Exception handler
OnError(cm, a, mr) == [model |-> cm, sleeps |-> Backoff(a, mr), next |-> a + 1]

\* variant: the articles are numbered from the end of the list
BuildPrompt_Reversed(its) ==
    [n |-> Len(its),
     articles |-> [i \in 1..Len(its) |->
                      [title |-> its[Len(its) + 1 - i].title,
                       content |-> its[Len(its) + 1 - i].description,
                       category |-> its[Len(its) + 1 - i].category]]]

\* the batch prompt: the number of articles asked for and one block per
\* item, in the order of the list (title, content, category; source_name is
\* not a field of the modelled items)
BuildPrompt(its) ==
    [n |-> Len(its),
     articles |-> [i \in 1..Len(its) |->
                      [title |-> its[i].title,
                       content |-> its[i].description,
                       category |-> its[i].category]]]

\* "if not items: return []", else the prompt is built and the loop is
\* entered on the primary model
Start ==
    /\ cl_pc = "start"
    /\ IF batch = << >>
       THEN /\ cl_pc' = "done"
            /\ summaries' = << >>
            /\ UNCHANGED <<current_model, batch_prompt>>
       ELSE /\ cl_pc' = "loop"
            /\ current_model' = model_name
            /\ batch_prompt' = BuildPrompt(batch)
            /\ UNCHANGED summaries
    /\ attempt' = 0
    /\ UNCHANGED <<batch, max_retries, model_name, events, raised, submitted, response_text>>
    /\ UNCHANGED <<sel_vars, v_vars, sc_vars, wf_vars>>

\* one iteration in which generate_content returns a text
AttemptResponse ==
    /\ cl_pc = "loop"
    /\ attempt < max_retries
    /\ \E response \in Responses :
          LET parsed == _parse_batch_response(response, batch) IN
          /\ events' = Append(events,
                 Call(current_model, attempt, "ok",
                      IF parsed.none THEN -1 ELSE Len(parsed.results)))
          /\ IF Usable(parsed)
             THEN /\ summaries' = parsed.results
                  /\ response_text' = response
                  /\ cl_pc' = "done"
                  /\ UNCHANGED attempt
             ELSE /\ attempt' = attempt + 1
                  /\ UNCHANGED <<summaries, cl_pc, response_text>>
    /\ submitted' = Append(submitted, batch_prompt)
    /\ UNCHANGED <<batch, max_retries, model_name, current_model, raised, batch_prompt>>
    /\ UNCHANGED <<sel_vars, v_vars, sc_vars, wf_vars>>

\* one iteration in which generate_content raises ResourceExhausted
AttemptQuota ==
    /\ cl_pc = "loop"
    /\ attempt < max_retries
    /\ LET h == OnQuota(current_model, attempt, max_retries) IN
          /\ events' = Append(events, Call(current_model, attempt, "quota", -1)) \o h.sleeps
          /\ current_model' = h.model
          /\ attempt' = h.next
    /\ submitted' = Append(submitted, batch_prompt)
    /\ UNCHANGED <<batch, max_retries, model_name, summaries, raised, cl_pc,
                   batch_prompt, response_text>>
    /\ UNCHANGED <<sel_vars, v_vars, sc_vars, wf_vars>>

\* one iteration in which the call raises any other exception
AttemptError ==
    /\ cl_pc = "loop"
    /\ attempt < max_retries
    /\ LET h == OnError(current_model, attempt, max_retries) IN
          /\ events' = Append(events, Call(current_model, attempt, "error", -1)) \o h.sleeps
          /\ current_model' = h.model
          /\ attempt' = h.next
    /\ submitted' = Append(submitted, batch_prompt)
    /\ UNCHANGED <<batch, max_retries, model_name, summaries, raised, cl_pc,
                   batch_prompt, response_text>>
    /\ UNCHANGED <<sel_vars, v_vars, sc_vars, wf_vars>>

\* variant: running out of attempts raises instead of returning []
Exhausted_Raises ==
    /\ cl_pc = "loop"
    /\ attempt >= max_retries
    /\ raised' = TRUE
    /\ cl_pc' = "done"
    /\ UNCHANGED <<batch, max_retries, model_name, current_model, attempt, events, summaries,
                   batch_prompt, submitted, response_text>>
    /\ UNCHANGED <<sel_vars, v_vars, sc_vars, wf_vars>>

\* the loop ran out: "return []"
Exhausted ==
    /\ cl_pc = "loop"
    /\ attempt >= max_retries
    /\ summaries' = << >>
    /\ cl_pc' = "done"
    /\ UNCHANGED <<batch, max_retries, model_name, current_model, attempt, events, raised,
                   batch_prompt, submitted, response_text>>
    /\ UNCHANGED <<sel_vars, v_vars, sc_vars, wf_vars>>

\* the items handed to the summarizer come out of the selector: all carry an image
BatchItems == { it \in FeedItem : Truthy(it.image_url) }

ClientInit ==
    /\ batch \in SeqsUpTo(BatchItems, MaxBatch)
    /\ max_retries \in 0..MaxRetries
    /\ model_name \in Models
    /\ current_model = model_name
    /\ attempt = 0
    /\ events = << >>
    /\ summaries = << >>
    /\ raised = FALSE
    /\ cl_pc = "start"
    /\ batch_prompt = << >>
    /\ submitted = << >>
    /\ response_text = [kind |-> "none"]
    /\ SelectorIdle
    /\ ValidatorIdle
    /\ ScorerIdle
    /\ WorkflowIdle

ClientNext ==
    \/ Start
    \/ AttemptResponse
    \/ AttemptQuota
    \/ AttemptError
    \/ Exhausted

ClientSpec == ClientInit /\ [][ClientNext]_vars

(***************************************************************************)
(* Properties of the summarization client                                  *)
(***************************************************************************)
CallAt(i) == events[i].type = "call"

SleepAt(i) == events[i].type = "sleep"

\* positions of the backend calls in the history
CallPositions == { i \in 1..Len(events) : CallAt(i) }

\* zero-based index, over the backend calls of the invocation, of the call at i
CallIndex(i) == Cardinality({ k \in CallPositions : k < i })

\* the call at i was made on the primary model and ended in ResourceExhausted
PrimaryQuotaAt(i) ==
    CallAt(i) /\ events[i].outcome = "quota" /\ events[i].model # fallback_model

\* the call at i ended in an error that is owed a backoff
BackoffErrorAt(i) ==
    /\ CallAt(i)
    /\ \/ events[i].outcome = "error"
       \/ events[i].outcome = "quota" /\ events[i].model = fallback_model

\* the call at i returned a text from which the validator got >= 1 summary
UsableAt(i) == CallAt(i) /\ events[i].outcome = "ok" /\ events[i].results > 0

\* C5: an invocation of summarize_items_batch makes at most max_retries
\* backend calls, whatever the backend answers; the switch to the fallback
\* model adds no call.
C5_BoundedCalls ==
    /\ Cardinality(CallPositions) <= max_retries
    /\ attempt <= max_retries

\* an invocation that used all its attempts, one of them ending in the switch
\* to the fallback model
C5_Witness ==
    /\ cl_pc = "done"
    /\ max_retries = MaxRetries
    /\ Cardinality(CallPositions) = max_retries
    /\ \E i \in CallPositions : PrimaryQuotaAt(i)

\* C6: whenever an attempt on the primary model ends in QuotaExceeded, an
\* attempt on the fallback model is made later in the same invocation.
C6_FallbackAttempted ==
    cl_pc = "done" =>
        \A i \in CallPositions :
            PrimaryQuotaAt(i) =>
                \E j \in CallPositions : j > i /\ events[j].model = fallback_model

\* C7: no sleep lies between a QuotaExceeded on the primary model and the
\* next backend call; when that call succeeds on the fallback model the
\* summaries are returned with no delay spent for it.
C7_NoBackoffOnSwitch ==
    \A i \in CallPositions :
        (PrimaryQuotaAt(i) /\ i < Len(events)) =>
            /\ CallAt(i + 1)
            /\ events[i + 1].model = fallback_model

\* quota on the primary model, then success on the fallback model, returned
\* without any sleep
C7_Witness ==
    /\ cl_pc = "done"
    /\ Len(events) = 2
    /\ PrimaryQuotaAt(1)
    /\ UsableAt(2)
    /\ events[2].model = fallback_model
    /\ summaries # << >>

\* C8: after a QuotaExceeded on the fallback model or any other error on the
\* call of zero-based index a, the next call is preceded by one sleep of
\* exactly 2^a seconds.
C8_BackoffBeforeRetry ==
    \A i \in CallPositions :
        (BackoffErrorAt(i) /\ \E j \in CallPositions : j > i) =>
            /\ events[i].attempt = CallIndex(i)
            /\ events[i + 1] = Sleep(Pow2(CallIndex(i)))
            /\ CallAt(i + 2)

\* an error on the second call, a sleep of 2 seconds, then the third call
C8_Witness ==
    \E i \in CallPositions :
        /\ BackoffErrorAt(i)
        /\ CallIndex(i) = 1
        /\ Len(events) >= i + 2
        /\ events[i + 1] = Sleep(2)
        /\ CallAt(i + 2)

\* C9: when every attempt of an invocation fails (error, quota, or a text
\* without usable summaries), the invocation returns the empty list and
\* raises nothing.
C9_FailureGivesEmpty ==
    (cl_pc = "done" /\ \A i \in CallPositions : ~UsableAt(i)) =>
        summaries = << >> /\ ~raised

\* an invocation whose attempts all failed, in three different ways
C9_Witness ==
    /\ cl_pc = "done"
    /\ Cardinality(CallPositions) = 3
    /\ \E i \in CallPositions : events[i].outcome = "error"
    /\ \E i \in CallPositions : events[i].outcome = "quota"
    /\ \E i \in CallPositions : events[i].outcome = "ok"
    /\ \A i \in CallPositions : ~UsableAt(i)
    /\ summaries = << >>

\* C10 as stated: after a backend call that returned without error, no
\* further backend call is made, whatever the validator yields.
C10_NoCallAfterResponse ==
    \A i \in CallPositions :
        events[i].outcome = "ok" => \A j \in CallPositions : j <= i

\* C10, amended: a backend call that returned without error and from whose
\* text the validator got at least one summary is the last backend call: the
\* invocation is over and returns that many summaries.
C10_NoCallAfterUsableResponse ==
    \A i \in CallPositions :
        UsableAt(i) =>
            /\ i = Len(events)
            /\ cl_pc = "done"
            /\ Len(summaries) = events[i].results

\* a text without usable summaries was retried, and the usable partial
\* answer of the retry (one summary for a batch of two) ended the invocation
C10_Witness ==
    /\ cl_pc = "done"
    /\ Len(batch) = 2
    /\ Len(events) = 2
    /\ events[1].outcome = "ok"
    /\ ~UsableAt(1)
    /\ UsableAt(2)
    /\ Len(summaries) = 1

\* C11: every attempt of an invocation (first try, fallback retry, backoff
\* retry) submits the same prompt, built from the items of the batch in the
\* order of the batch.
C11_SamePromptEveryAttempt ==
    /\ Len(submitted) = Cardinality(CallPositions)
    /\ \A i \in 1..Len(submitted) :
          /\ submitted[i].n = Len(batch)
          /\ Len(submitted[i].articles) = Len(batch)
          /\ \A k \in 1..Len(batch) :
                /\ submitted[i].articles[k].title = batch[k].title
                /\ submitted[i].articles[k].content = batch[k].description
                /\ submitted[i].articles[k].category = batch[k].category
          /\ submitted[i] = submitted[1]

\* three attempts for a batch of two different items: a switch to the
\* fallback model, a backoff and a third call
C11_Witness ==
    /\ Len(batch) = 2
    /\ batch[1] # batch[2]
    /\ Len(submitted) = 3
    /\ \E i \in CallPositions : PrimaryQuotaAt(i)
    /\ \E i \in 1..Len(events) : SleepAt(i)

(***************************************************************************)
(* The validator on its own: _parse_batch_response applied to a backend    *)
(* text and a list of items                                                *)
(***************************************************************************)
TagChars == {"#", " ", "a"}

RawTags ==
    SeqsUpTo(TagChars, 2) \cup { <<"#", " ", "#", "a">>, <<"a", "\t", "a">> }

SixteenTags == [i \in 1..(HashtagMax + 1) |-> <<"a">>]

HashtagValues ==
    { Absent, JNull, Tags(<< >>), Tags(SixteenTags) }
        \cup { Tags(<< t >>) : t \in RawTags }
        \cup { Chars(cs) : cs \in { << >>, <<",">>, <<"a", ",", "a">>,
                                    <<"#", "a", ",", " ", "#">>,
                                    <<"#", " ", "#", "a">> } }

TitleValues ==
    { Absent, JNull, Str("breaking title", 10, 80, {}) }

DescriptionValues ==
    { Absent, JNull, Str("thin description", 0, 100, {}) }

CaptionValues ==
    { Absent, JNull,
      Str("prefixed", 12, 1195, {1194}),
      Str("minimum", 0, 1200, {1199}),
      Str("five sentences", 0, 1400, {200, 500, 800, 1100, 1399}),
      Str("period at minimum", 0, 1500, {1200, 1450}),
      Str("no late period", 0, 1500, {100, 1499}) }

SourceValues ==
    { Absent, JNull, EmptyStr, Str("Breaking:", 9, 0, {}) }

\* the elements of the client's texts and the elements that differ from an
\* in-policy object in one field
ValidatorElements ==
    Elements
        \cup { Obj(v, GoodDescription, Str("fine", 0, 1300, {600, 1299}), GoodTags, GoodSource) :
                 v \in TitleValues }
        \cup { Obj(GoodTitle, v, Str("fine", 0, 1300, {600, 1299}), GoodTags, GoodSource) :
                 v \in DescriptionValues }
        \cup { Obj(GoodTitle, GoodDescription, v, GoodTags, GoodSource) :
                 v \in CaptionValues }
        \cup { Obj(GoodTitle, GoodDescription, Str("fine", 0, 1300, {600, 1299}), v, GoodSource) :
                 v \in HashtagValues }
        \cup { Obj(GoodTitle, GoodDescription, Str("fine", 0, 1300, {600, 1299}), GoodTags, v) :
                 v \in SourceValues }

ValidatorResponses ==
    { [kind |-> "no_array"], [kind |-> "bad_json"] }
        \cup { [kind |-> "array", data |-> d] : d \in SeqsUpTo(ValidatorElements, MaxBatch) }

\* the validator reads id and title of an item: one item per article
ValidatorItems == { it \in BatchItems : it.category = "tech" }

ValidatorInit ==
    /\ v_response \in ValidatorResponses
    /\ v_items \in SeqsUpTo(ValidatorItems, MaxBatch)
    /\ v_result = NoSummaries
    /\ v_pc = "call"
    /\ SelectorIdle
    /\ ClientIdle
    /\ ScorerIdle
    /\ WorkflowIdle

ParseBatchResponse ==
    /\ v_pc = "call"
    /\ v_result' = _parse_batch_response(v_response, v_items)
    /\ v_pc' = "done"
    /\ UNCHANGED <<v_response, v_items>>
    /\ UNCHANGED <<sel_vars, cl_vars, sc_vars, wf_vars>>

ValidatorNext == ParseBatchResponse

ValidatorSpec == ValidatorInit /\ [][ValidatorNext]_vars

SelectorInit ==
    /\ items \in SeqsUpTo(FeedItem, MaxItems)
    /\ top_n \in {Null} \cup (0..MaxTopN)
    /\ settings_top_n \in {0, TopNItemsDefault}
    /\ now \in Nows
    /\ selected = << >>
    /\ sel_pc = "call"
    /\ ClientIdle
    /\ ValidatorIdle
    /\ ScorerIdle
    /\ WorkflowIdle

SelectTopItems ==
    /\ sel_pc = "call"
    /\ selected' = select_top_items(items, top_n, settings_top_n, now)
    /\ sel_pc' = "done"
    /\ UNCHANGED <<items, top_n, settings_top_n, now>>
    /\ UNCHANGED <<cl_vars, v_vars, sc_vars, wf_vars>>

SelectorNext == SelectTopItems

SelectorSpec == SelectorInit /\ [][SelectorNext]_vars

(***************************************************************************)
(* Properties of the selector                                              *)
(***************************************************************************)
ImageCount(its) == Len(SelectSeq(its, LAMBDA it : Truthy(it.image_url)))

ImageCountIn(its, c) ==
    Len(SelectSeq(its, LAMBDA it : Truthy(it.image_url) /\ it.category = c))

Min(a, b) == IF a < b THEN a ELSE b

RECURSIVE SumOver(_, _)
SumOver(S, f) ==
    IF S = {} THEN 0
    ELSE LET x == CHOOSE y \in S : TRUE IN f[x] + SumOver(S \ {x}, f)

\* number of candidates that the per-category limit of top_n = n lets through
Admissible(its, n) ==
    SumOver(Categories, [c \in Categories |-> Min(ImageCountIn(its, c), max_per_category(n))])

CategoriesPresent(its) == { its[i].category : i \in 1..Len(its) }

\* C1: for top_n >= 1 the list returned by select_top_items has at most top_n
\* items, whether it comes from the early return, the diversity pass or backfill.
C1_AtMostTopN ==
    (sel_pc = "done" /\ top_n >= 1) => Len(selected) <= top_n

\* a call where the diversity pass under-filled and backfill completed the
\* quota with a third item of the same category
C1_Witness ==
    /\ sel_pc = "done"
    /\ top_n = 3
    /\ ImageCount(items) > top_n
    /\ Len(selected) = top_n
    /\ \E c \in Categories : CategoryCount(selected, c) = 3

\* C2: select_top_items called with top_n = 0 returns the empty list for
\* every input list.
C2_ZeroTopNEmpty ==
    (sel_pc = "done" /\ top_n = 0) => selected = << >>

\* C3: every item returned by select_top_items has a non-empty image_url.
C3_AllHaveImage ==
    sel_pc = "done" =>
        \A i \in 1..Len(selected) :
            selected[i].image_url # None /\ selected[i].image_url # ""

\* a call whose input holds items without image (None and "") next to
\* items with image, and which returned something
C3_Witness ==
    /\ sel_pc = "done"
    /\ \E i \in 1..Len(items) : items[i].image_url = None
    /\ \E i \in 1..Len(items) : items[i].image_url = ""
    /\ Len(selected) >= 2

\* C4: with at least two categories in the input and top_n >= 4, no category
\* supplies more than max(2, top_n // 2) items of the result, unless the
\* candidates admissible under that limit number fewer than top_n.
C4_Diversity ==
    (/\ sel_pc = "done"
     /\ top_n >= 4
     /\ Cardinality(CategoriesPresent(items)) >= 2
     /\ Admissible(items, top_n) >= top_n)
    => \A c \in Categories : CategoryCount(selected, c) <= max_per_category(top_n)

\* a call where one category has more candidates than the limit and the
\* limit kept the surplus out of the result
C4_Witness ==
    /\ sel_pc = "done"
    /\ top_n >= 4
    /\ Cardinality(CategoriesPresent(items)) >= 2
    /\ Admissible(items, top_n) >= top_n
    /\ \E c \in Categories : ImageCountIn(items, c) > max_per_category(top_n)
    /\ Len(selected) = top_n

(***************************************************************************)
(* Properties of the validator                                             *)
(***************************************************************************)
\* the cleaned caption of an element that is an object
CleanCaption(e) == _clean_text(Get(e.caption, EmptyStr))

\* the caption of the element is too short: the item is skipped
ShortCaption(e) ==
    e.kind = "object" /\ e.caption # JNull /\ CleanCaption(e).len < CaptionMin

\* processing the element raises: no object, a null where the code takes a
\* length, slices, iterates or builds the SummaryResult
Malformed(e, item) ==
    \/ e.kind # "object"
    \/ /\ e.kind = "object"
       /\ \/ e.title = JNull /\ PyLen(item.title) > TitleMax
          \/ e.description = JNull
          \/ e.caption = JNull
          \/ ~ShortCaption(e) /\ (e.hashtags = JNull \/ e.source = JNull)

\* every field present, of the schema's type and, once cleaned, within its
\* length policy
InPolicy(e) ==
    /\ e.kind = "object"
    /\ e.title.t = "str" /\ e.title.len <= TitleMax
    /\ e.description.t = "str" /\ e.description.len >= 170 /\ e.description.len <= 230
    /\ e.caption.t = "str" /\ e.caption.len >= CaptionMin /\ e.caption.len <= CaptionMax
    /\ e.hashtags.t = "list" /\ Len(e.hashtags.tags) <= HashtagMax
    /\ e.source.t = "str" /\ e.source.len > 0

\* positions that zip(data_array, items) pairs
Zipped(data, its) == 1..Min(Len(data), Len(its))

\* the zipped positions whose element yields a SummaryResult, in order
Kept(data, its) ==
    SortedSeq({ k \in Zipped(data, its) : ~Malformed(data[k], its[k]) /\ ~ShortCaption(data[k]) })

Ids(results) == [j \in 1..Len(results) |-> results[j].feed_item_id]

ValidatedArray == v_pc = "done" /\ v_response.kind = "array"

\* the validator returned a list, whose j-th entry comes from position Kept[j]
Emitted ==
    /\ ValidatedArray
    /\ ~v_result.none
    /\ Len(v_result.results) = Len(Kept(v_response.data, v_items))

\* C12: for an array of N in-policy objects and N items the validator
\* returns N results in input order, the i-th with the id of the i-th item.
C12_RoundTrip ==
    (/\ ValidatedArray
     /\ Len(v_response.data) = Len(v_items)
     /\ \A k \in 1..Len(v_response.data) : InPolicy(v_response.data[k]))
    => /\ ~v_result.none
       /\ Len(v_result.results) = Len(v_items)
       /\ \A i \in 1..Len(v_items) : v_result.results[i].feed_item_id = v_items[i].id

\* two in-policy objects for two different items
C12_Witness ==
    /\ ValidatedArray
    /\ Len(v_items) = 2
    /\ v_items[1].id # v_items[2].id
    /\ Len(v_response.data) = 2
    /\ \A k \in 1..2 : InPolicy(v_response.data[k])
    /\ Ids(v_result.results) = << v_items[1].id, v_items[2].id >>

\* C13: a malformed element of the array never aborts the batch: every
\* other element that is in policy still yields its SummaryResult.
C13_MalformedDoesNotAbort ==
    ValidatedArray =>
        \A k \in Zipped(v_response.data, v_items) :
            InPolicy(v_response.data[k]) =>
                /\ ~v_result.none
                /\ \E j \in 1..Len(v_result.results) :
                      v_result.results[j].feed_item_id = v_items[k].id

\* C14: an element with a caption shorter than 1200 characters yields no
\* SummaryResult, the other elements of the batch yield theirs, and the
\* caller of summarize_items_batch gets exactly those.
C14_ShortCaptionDropsOneItem ==
    (cl_pc = "done" /\ response_text.kind = "array") =>
        Ids(summaries) =
            [j \in 1..Len(Kept(response_text.data, batch)) |->
                batch[Kept(response_text.data, batch)[j]].id]

\* a short caption for the first item of a batch of two, the summary of the
\* second item returned
C14_Witness ==
    /\ cl_pc = "done"
    /\ response_text.kind = "array"
    /\ Len(batch) = 2
    /\ batch[1].id # batch[2].id
    /\ Len(response_text.data) = 2
    /\ ShortCaption(response_text.data[1])
    /\ InPolicy(response_text.data[2])
    /\ Ids(summaries) = << batch[2].id >>

\* C15 as stated: when the output is a JSON array, an item without
\* SummaryResult is an item whose caption is shorter than 1200 characters.
C15_OnlyShortCaptionDrops ==
    ValidatedArray =>
        \A k \in 1..Len(v_items) :
            (v_result.none \/ v_items[k].id \notin Range(Ids(v_result.results))) =>
                /\ k <= Len(v_response.data)
                /\ ShortCaption(v_response.data[k])

\* C15, amended: when the output is a JSON array, an item has no
\* SummaryResult only if its caption is shorter than 1200 characters, or the
\* array has no element at its position, or an element paired with some item
\* made the validator raise, which drops the whole batch.
C15_DropReasons ==
    ValidatedArray =>
        /\ v_result.none <=>
               \E k \in Zipped(v_response.data, v_items) :
                   Malformed(v_response.data[k], v_items[k])
        /\ ~v_result.none =>
               Ids(v_result.results) =
                   [j \in 1..Len(Kept(v_response.data, v_items)) |->
                       v_items[Kept(v_response.data, v_items)[j]].id]

\* an array shorter than the item list: the second item has no element and
\* no result, the first has its result
C15_Witness ==
    /\ ValidatedArray
    /\ Len(v_items) = 2
    /\ v_items[1].id # v_items[2].id
    /\ Len(v_response.data) = 1
    /\ InPolicy(v_response.data[1])
    /\ Ids(v_result.results) = << v_items[1].id >>

\* the last period of c at an offset in lo..(CaptionMax - 1), or -1
LastPeriodFrom(c, lo) ==
    LET late == { q \in c.periods : q >= lo /\ q < CaptionMax }
    IN IF late = {} THEN -1 ELSE CHOOSE q \in late : \A r \in late : r <= q

\* the length to which a caption longer than 1400 is cut when a period at an
\* offset >= lo ends the cut
CutLength(c, lo) ==
    IF LastPeriodFrom(c, lo) = -1 THEN CaptionMax ELSE LastPeriodFrom(c, lo) + 1

\* the emitted caption of position Kept[j] is the reflow of the first n
\* characters of the cleaned caption
EmittedCaptionIsCut(j, n) ==
    LET k == Kept(v_response.data, v_items)[j]
    IN v_result.results[j].caption =
           _format_caption_paragraphs(Cut(CleanCaption(v_response.data[k]), n))

\* C16 as stated: a cleaned caption longer than 1400 is cut to 1400 and then,
\* if a period lies at an offset >= 1200 of that prefix, to the last such
\* period (included).
C16_TruncationAtOrAfter1200 ==
    Emitted =>
        \A j \in 1..Len(v_result.results) :
            LET c == CleanCaption(v_response.data[Kept(v_response.data, v_items)[j]])
            IN c.len > CaptionMax => EmittedCaptionIsCut(j, CutLength(c, CaptionMin))

\* C16, amended: a cleaned caption longer than 1400 is cut to 1400 and then,
\* if a period lies at an offset > 1200 of that prefix, to the last such
\* period (included); otherwise the 1400-character prefix is kept.
C16_TruncationAfter1200 ==
    Emitted =>
        \A j \in 1..Len(v_result.results) :
            LET c == CleanCaption(v_response.data[Kept(v_response.data, v_items)[j]])
            IN c.len > CaptionMax => EmittedCaptionIsCut(j, CutLength(c, CaptionMin + 1))

\* the 1500-character caption with its last period before 1400 at offset
\* 1250 comes out 1251 characters long
C16_Witness ==
    /\ Emitted
    /\ Len(v_result.results) = 1
    /\ LET c == CleanCaption(v_response.data[Kept(v_response.data, v_items)[1]])
       IN /\ c.len = 1500
          /\ LastPeriodFrom(c, 0) = 1250
    /\ v_result.results[1].caption.len = 1251

\* C17: the emitted title is the original title when that has at most 65
\* characters, else the cleaned generated title cut to 65 characters; an
\* emitted title never has more than 65 characters.
C17_TitlePolicy ==
    Emitted =>
        \A j \in 1..Len(v_result.results) :
            LET k == Kept(v_response.data, v_items)[j]
                generated == _clean_text(Get(v_response.data[k].title, EmptyStr))
                title == v_result.results[j].title
            IN /\ PyLen(title) <= TitleMax
               /\ IF PyLen(v_items[k].title) <= TitleMax
                  THEN title = v_items[k].title
                  ELSE /\ title.text = generated.text
                       /\ title.junk = 0
                       /\ title.len = Min(generated.len, TitleMax)

\* an original title of 50 characters passed through and an original title
\* of 90 characters replaced by a generated title of 80, cut to 65
C17_Witness ==
    /\ Emitted
    /\ Len(v_result.results) = 2
    /\ Kept(v_response.data, v_items) = << 1, 2 >>
    /\ PyLen(v_items[1].title) = 50
    /\ v_result.results[1].title = v_items[1].title
    /\ PyLen(v_items[2].title) = 90
    /\ v_response.data[2].title.t = "str"
    /\ PyLen(v_response.data[2].title) = 90
    /\ v_result.results[2].title.text = v_response.data[2].title.text
    /\ PyLen(v_result.results[2].title) = TitleMax

\* C18: an emitted hashtag list has at most 15 tags, each of them non-empty,
\* without leading "#" and without whitespace.
C18_CleanHashtags ==
    (v_pc = "done" /\ ~v_result.none) =>
        \A j \in 1..Len(v_result.results) :
            LET tags == v_result.results[j].hashtags
            IN /\ Len(tags) <= HashtagMax
               /\ \A i \in 1..Len(tags) :
                     /\ tags[i] # << >>
                     /\ tags[i][1] # "#"
                     /\ \A n \in 1..Len(tags[i]) : tags[i][n] \notin Whitespace

\* C19: an absent source and a source that is empty after cleanup are
\* emitted as "Unknown"; the emitted source is never empty.
C19_SourceNeverEmpty ==
    Emitted =>
        \A j \in 1..Len(v_result.results) :
            LET k == Kept(v_response.data, v_items)[j]
                given == v_response.data[k].source
            IN /\ PyLen(v_result.results[j].source) > 0
               /\ (given = Absent \/ given.len = 0) =>
                      v_result.results[j].source.text = "Unknown"

\* C20: select_top_items returns no two items with the same id.
C20_NoDuplicateIds ==
    sel_pc = "done" =>
        \A i, j \in 1..Len(selected) : i # j => selected[i].id # selected[j].id

(***************************************************************************)
(* The scorer on its own: calculate_score evaluated on one item, possibly  *)
(* more than once, while the clock read by _calculate_recency_score runs.  *)
(***************************************************************************)
\* datetime.utcnow() when the first evaluation can be made, in hours
ScoreClockStart == 1000

\* published_date: none, or a date that puts the age on either side of
\* every step of the recency table (one hour in the future, 0h, 1h, 5h, 6h,
\* 11h, 12h, 23h, 24h, 47h, 48h, 167h, 168h before ScoreClockStart)
ScoreDates ==
    {Null, 1001, 1000, 999, 995, 994, 989, 988, 977, 976, 953, 952, 833, 832}

\* description: none, or a text whose length is on either side of every
\* step of the quality table (the feed manager turns an empty text into None)
ScoreDescriptions == {Null, 1, 49, 50, 99, 100, 499, 500}

ScoreImages == {None, "", "http://img/1"}

\* the categories of the configured feeds and one that no feed has
ScoreCategories == {"tech", "world", "sport", "local", "other"}

ScoreItems ==
    [published_date : ScoreDates, description : ScoreDescriptions,
     image_url : ScoreImages, category : ScoreCategories]

ScorerInit ==
    /\ sc_item \in ScoreItems
    /\ sc_clock = ScoreClockStart
    /\ sc_scores = << >>
    /\ SelectorIdle
    /\ ClientIdle
    /\ ValidatorIdle
    /\ WorkflowIdle

\* one call of calculate_score(item)
Evaluate ==
    /\ Len(sc_scores) < MaxEvaluations
    /\ sc_scores' = Append(sc_scores,
                           [at |-> sc_clock, score |-> calculate_score(sc_item, sc_clock)])
    /\ UNCHANGED <<sc_item, sc_clock>>
    /\ UNCHANGED <<sel_vars, cl_vars, v_vars, wf_vars>>

\* an hour passes between two calls
Tick ==
    /\ sc_clock < ScoreClockStart + MaxTicks
    /\ sc_clock' = sc_clock + 1
    /\ UNCHANGED <<sc_item, sc_scores>>
    /\ UNCHANGED <<sel_vars, cl_vars, v_vars, wf_vars>>

ScorerNext ==
    \/ Evaluate
    \/ Tick

ScorerSpec == ScorerInit /\ [][ScorerNext]_vars

(***************************************************************************)
(* Properties of the scorer                                                *)
(***************************************************************************)
\* the recency table, in tenths, over the age in hours
RecencyTable(age) ==
    CASE age < 1 -> 10
      [] age >= 1 /\ age < 6 -> 9
      [] age >= 6 /\ age < 12 -> 8
      [] age >= 12 /\ age < 24 -> 7
      [] age >= 24 /\ age < 48 -> 5
      [] age >= 48 /\ age < 168 -> 3
      [] age >= 168 -> 1

\* the quality table, in tenths, over the length of the description
QualityTable(length) ==
    CASE length < 50 -> 6
      [] length >= 50 /\ length < 100 -> 8
      [] length >= 100 /\ length < 500 -> 10
      [] length >= 500 -> 9

\* the configured priority of a category, in thousandths (1.0 when none)
ConfiguredPriority(c) ==
    LET own == { i \in 1..Len(Feeds) : Feeds[i].category = c /\ Feeds[i].priority # Null }
    IN IF own = {} THEN 1000 ELSE Feeds[CHOOSE i \in own : TRUE].priority

\* (0.4*recency + 0.3*quality + 0.3) * source_priority * image_bonus of an
\* item scored at time t, in units of 1e-6, before rounding
WeightedScore(item, t) ==
    LET recency == IF item.published_date = Null THEN 5
                   ELSE RecencyTable(t - item.published_date)
        quality == IF item.description = Null THEN 5
                   ELSE QualityTable(item.description)
        image_bonus == IF item.image_url \in {None, ""} THEN 10 ELSE 12
    IN (4 * recency + 3 * quality + 30) * ConfiguredPriority(item.category) * image_bonus

\* C21: calculate_score(item) is (0.4*recency + 0.3*quality + 0.3) *
\* source_priority * image_bonus rounded to 4 decimals, with recency and
\* quality read off their step tables (0.5 without date, 0.5 without
\* description), image_bonus 1.2 with an image and 1.0 without, and
\* source_priority the configured priority of the category (1.0 when none):
\* the returned score is the multiple of 1e-4 nearest to that product.
C21_ScoreFormula ==
    \A k \in 1..Len(sc_scores) :
        LET exact == WeightedScore(sc_item, sc_scores[k].at)
        IN (100 * sc_scores[k].score - exact) \in (-50)..50

\* an evaluation whose product has more than 4 decimals and was rounded up,
\* of an item less than an hour old with an image
C21_Witness ==
    /\ Len(sc_scores) >= 1
    /\ sc_item.published_date = sc_scores[1].at
    /\ sc_item.image_url = "http://img/1"
    /\ sc_item.category = "sport"
    /\ 100 * sc_scores[1].score > WeightedScore(sc_item, sc_scores[1].at)

\* C22: two evaluations of calculate_score on the same item under the same
\* configuration return the same score, whenever they are made.
C22_Deterministic ==
    \A j, k \in 1..Len(sc_scores) : sc_scores[j].score = sc_scores[k].score

(***************************************************************************)
(* Further properties of the selector                                      *)
(***************************************************************************)
\* the image-bearing items of the input, in input order
Candidates == SelectSeq(items, LAMBDA it : it.image_url \notin {None, ""})

\* the score the selector gave to the candidate at position i
CandidateScore(i) == calculate_score(Candidates[i], now)

\* the scores the selector gives to the items of a list
ScoresOf(c) == [i \in 1..Len(c) |-> calculate_score(c[i], now)]

\* the rank of position i: one more than the number of positions that go
\* before it in the order "score descending, input order among equal scores"
RankAmong(score, i) ==
    1 + Cardinality({ j \in DOMAIN score :
                        \/ score[j] > score[i]
                        \/ score[j] = score[i] /\ j < i })

\* the list c in rank order
RankedWith(c, score) ==
    [r \in 1..Len(c) |-> c[CHOOSE i \in 1..Len(c) : RankAmong(score, i) = r]]

\* the candidates in rank order
Ranked ==
    CHOOSE r \in UNION { { RankedWith(c, score) : score \in {ScoresOf(c)} } :
                          c \in {Candidates} } : TRUE

\* number of occurrences of x in a list
Occurrences(its, x) == Cardinality({ i \in 1..Len(its) : its[i] = x })

\* C23: select_top_items returns the empty list whenever the input holds no
\* image-bearing item (empty input, or every item without image URL), for
\* every top_n.
C23_NoImagesGivesEmpty ==
    (sel_pc = "done" /\ Candidates = << >>) => selected = << >>

\* a call on a non-empty input whose items have no image: one with
\* image_url None and one with image_url ""
C23_Witness ==
    /\ sel_pc = "done"
    /\ \E i \in 1..Len(items) : items[i].image_url = None
    /\ \E i \in 1..Len(items) : items[i].image_url = ""
    /\ Candidates = << >>
    /\ top_n = 2
    /\ selected = << >>

\* C25: when the image-bearing items number at most top_n, the result is
\* all of them, ordered by descending score, items of equal score in their
\* input order; no per-category cap applies.
C25_AllCandidatesInRankOrder ==
    (/\ sel_pc = "done"
     /\ top_n # Null
     /\ Len(Candidates) <= top_n)
    => selected = Ranked

\* a call that returned three items of one category (more than the cap of
\* top_n = 3), two distinct ones of equal score in input order behind an
\* item that came last in the input
C25_Witness ==
    /\ sel_pc = "done"
    /\ top_n = 3
    /\ Len(Candidates) = 3
    /\ Len(selected) = 3
    /\ CategoryCount(selected, "tech") = 3
    /\ selected[1] = Candidates[3]
    /\ selected[2] = Candidates[1]
    /\ selected[3] = Candidates[2]
    /\ selected[2] # selected[3]
    /\ CandidateScore(1) = CandidateScore(2)

\* C26: for top_n >= 1 the result has exactly min(top_n, number of
\* image-bearing input items) items, and no item occurs in it more often
\* than in the input.
C26_QuotaFilled ==
    (sel_pc = "done" /\ top_n >= 1) =>
        /\ Len(selected) = Min(top_n, Len(Candidates))
        /\ \A i \in 1..Len(selected) :
              Occurrences(selected, selected[i]) <= Occurrences(items, selected[i])

\* the rank positions admitted by the diversity pass with quota n, in
\* increasing order, given the positions A admitted before position i: a
\* position is admitted when fewer than n positions and fewer than the
\* category limit of positions of its category were admitted before it
RECURSIVE Admitted(_, _, _, _)
Admitted(ranked, n, i, A) ==
    IF i > Len(ranked) THEN A
    ELSE IF /\ Len(A) < n
            /\ Cardinality({ k \in 1..Len(A) :
                                ranked[A[k]].category = ranked[i].category })
                   < max_per_category(n)
         THEN Admitted(ranked, n, i + 1, Append(A, i))
         ELSE Admitted(ranked, n, i + 1, A)

\* the rank positions backfilled after the positions A were admitted, in
\* increasing order, given the positions B backfilled before position i: a
\* position is taken when its item is not among the admitted or earlier
\* backfilled ones and the quota is not yet met
RECURSIVE Backfilled(_, _, _, _, _)
Backfilled(ranked, A, n, i, B) ==
    IF i > Len(ranked) THEN B
    ELSE IF /\ Len(A) + Len(B) < n
            /\ \A k \in 1..Len(A) : ranked[A[k]] # ranked[i]
            /\ \A k \in 1..Len(B) : ranked[B[k]] # ranked[i]
         THEN Backfilled(ranked, A, n, i + 1, Append(B, i))
         ELSE Backfilled(ranked, A, n, i + 1, B)

\* the items at the rank positions listed in P
ItemsAt(ranked, P) == [k \in 1..Len(P) |-> ranked[P[k]]]

\* C27: with more than top_n image-bearing candidates the result is the
\* items admitted by the diversity pass in rank order followed by the
\* backfilled items in rank order; it is not sorted again after backfill.
C27_PassThenBackfillOrder ==
    (/\ sel_pc = "done"
     /\ top_n >= 1
     /\ Len(Candidates) > top_n)
    => \E ranked \in {Ranked} :
          \E A \in {Admitted(ranked, top_n, 1, << >>)} :
             \E B \in {Backfilled(ranked, A, top_n, 1, << >>)} :
                selected = ItemsAt(ranked, A) \o ItemsAt(ranked, B)

\* a call where backfill appended an item of higher score behind an item
\* of lower score admitted by the diversity pass
C27_Witness ==
    /\ sel_pc = "done"
    /\ top_n = 4
    /\ Len(Candidates) > top_n
    /\ Len(Admitted(Ranked, top_n, 1, << >>)) = 3
    /\ Len(selected) = 4
    /\ calculate_score(selected[4], now) > calculate_score(selected[3], now)

(***************************************************************************)
(* Further properties of the summarization client                          *)
(***************************************************************************)
\* a call on the fallback model that raised QuotaExceeded
FallbackQuotaAt(i) ==
    CallAt(i) /\ events[i].outcome = "quota" /\ events[i].model = fallback_model

\* C28: within one invocation the current model changes at most once, from
\* the primary to the fallback, and never back; a QuotaExceeded raised on
\* the fallback model is handled like a transient error: backoff of
\* 2^attempt seconds unless it was the last attempt, no model change.
C28_SingleSwitch ==
    /\ \A i \in CallPositions :
          /\ events[i].model \in {model_name, fallback_model}
          /\ \A j \in CallPositions :
                (i < j /\ events[i].model = fallback_model)
                    => events[j].model = fallback_model
    /\ (\E i \in CallPositions : events[i].model = fallback_model)
          => current_model = fallback_model
    /\ current_model \in {model_name, fallback_model}
    /\ \A i \in 1..Len(events) :
          FallbackQuotaAt(i) =>
              IF events[i].attempt < max_retries - 1
              THEN /\ i < Len(events)
                   /\ events[i + 1] = Sleep(Pow2(events[i].attempt))
              ELSE i = Len(events)

\* an invocation that switched from the primary to the fallback model, got
\* QuotaExceeded from the fallback too, backed off and called it again
C28_Witness ==
    /\ model_name # fallback_model
    /\ Len(events) >= 4
    /\ PrimaryQuotaAt(1)
    /\ FallbackQuotaAt(2)
    /\ events[3] = Sleep(2)
    /\ CallAt(4)
    /\ events[4].model = fallback_model

(***************************************************************************)
(* Further properties of the response validator                            *)
(***************************************************************************)
\* C29: every emitted SummaryResult carries a caption whose final length,
\* after truncation and paragraph reflow, is between 1200 and 1400
\* characters inclusive.
C29_CaptionLength ==
    (v_pc = "done" /\ ~v_result.none) =>
        \A j \in 1..Len(v_result.results) :
            /\ PyLen(v_result.results[j].caption) >= CaptionMin
            /\ PyLen(v_result.results[j].caption) <= CaptionMax

(***************************************************************************)
(* The run (run_workflow in main.py): configuration check, feed manager    *)
(* and its last-run timestamp, fetch, time filter, selection,              *)
(* summarization, rendering, mark_run_complete, export.                    *)
(***************************************************************************)
\* datetime.utcnow() while the run loads and filters, in hours
RunNow == 100

\* datetime.utcnow() when mark_run_complete saves the timestamp
RunEnd == 101

\* data/last_run.json before the run: no file, a file that does not load,
\* or a file with a timestamp
LastRunFiles ==
    { [state |-> "missing"], [state |-> "corrupt"],
      [state |-> "ok", last_run |-> 95], [state |-> "ok", last_run |-> 99] }

\* the item that the feed of category c makes of article id
Item(id, c) == CHOOSE it \in FeedItem : it.id = id /\ it.category = c

\* ParsedFeed: an error, or the items of the feed
ParsedFeed(error, its) == [error |-> error, items |-> its]

\* what fetch_all_feeds can return: one ParsedFeed per configured feed
FetchResults ==
    { << tech, world >> :
        tech \in { ParsedFeed(TRUE, << >>), ParsedFeed(FALSE, << >>),
                   ParsedFeed(FALSE, << Item("a1", "tech") >>),
                   ParsedFeed(FALSE, << Item("a3", "tech") >>),
                   ParsedFeed(FALSE, << Item("a5", "tech"), Item("a2", "tech") >>) },
        world \in { ParsedFeed(TRUE, << >>),
                    ParsedFeed(FALSE, << Item("a4", "world") >>),
                    ParsedFeed(FALSE, << Item("a1", "world") >>) } }

\* _load_last_run: the timestamp of the file, or six hours ago
_load_last_run(file) ==
    IF file.state = "ok" THEN file.last_run ELSE RunNow - 6

\* the items of the feeds without error, in feed order
RECURSIVE AllItems(_, _)
AllItems(feeds, i) ==
    IF i > Len(feeds) THEN << >>
    ELSE (IF feeds[i].error THEN << >> ELSE feeds[i].items) \o AllItems(feeds, i + 1)

\* filter_new_items: the items published after the last run and the items
\* without date
filter_new_items(feeds, last_run) ==
    SelectSeq(AllItems(feeds, 1),
              LAMBDA it : it.published_date = Null \/ it.published_date > last_run)

\* what summarize_items can return for the selected items: a usable parse
\* of some backend text, or [] when the attempts ran out
SummarizeOutcomes(its) ==
    { << >> } \cup
    { _parse_batch_response(response, its).results :
        response \in { r \in Responses : Usable(_parse_batch_response(r, its)) } }

\* create_posts_for_summaries: one post per summary whose item is among the
\* selected ones and whose rendering (the positions in ok) succeeded
PostsFor(sums, its, ok) ==
    LET made == SelectSeq([k \in 1..Len(sums) |-> [k |-> k, id |-> sums[k].feed_item_id]],
                          LAMBDA e : e.k \in ok /\ \E i \in 1..Len(its) : its[i].id = e.id)
    IN [k \in 1..Len(made) |-> made[k].id]

WorkflowInit ==
    /\ gemini_api_key \in {"", "key"}
    /\ skip_time_filter \in BOOLEAN
    /\ last_run_file \in LastRunFiles
    /\ file_at_start = last_run_file
    /\ _last_run = Null
    /\ parsed_feeds = << >>
    /\ new_items = << >>
    /\ selected_items = << >>
    /\ wf_summaries = << >>
    /\ posts = << >>
    /\ wf_log = << >>
    /\ wf_raised = FALSE
    /\ wf_pc = "config"
    /\ SelectorIdle
    /\ ClientIdle
    /\ ValidatorIdle
    /\ ScorerIdle

\* variant: the run goes on without credential
CheckConfig_NoAbort ==
    /\ wf_pc = "config"
    /\ wf_pc' = "load"
    /\ UNCHANGED <<gemini_api_key, skip_time_filter, last_run_file, file_at_start, _last_run,
                   parsed_feeds, new_items, selected_items, wf_summaries, posts, wf_log,
                   wf_raised>>
    /\ UNCHANGED <<sel_vars, cl_vars, v_vars, sc_vars>>

\* "if not settings.gemini_api_key: return"
CheckConfig ==
    /\ wf_pc = "config"
    /\ wf_pc' = IF gemini_api_key = "" THEN "done" ELSE "load"
    /\ UNCHANGED <<gemini_api_key, skip_time_filter, last_run_file, file_at_start, _last_run,
                   parsed_feeds, new_items, selected_items, wf_summaries, posts, wf_log,
                   wf_raised>>
    /\ UNCHANGED <<sel_vars, cl_vars, v_vars, sc_vars>>

\* feed_manager = RSSFeedManager(): the constructor loads the timestamp
LoadLastRun ==
    /\ wf_pc = "load"
    /\ _last_run' = _load_last_run(last_run_file)
    /\ wf_log' = Append(wf_log, "read_last_run")
    /\ wf_pc' = "fetch"
    /\ UNCHANGED <<gemini_api_key, skip_time_filter, last_run_file, file_at_start,
                   parsed_feeds, new_items, selected_items, wf_summaries, posts, wf_raised>>
    /\ UNCHANGED <<sel_vars, cl_vars, v_vars, sc_vars>>

\* parsed_feeds = await feed_manager.fetch_all_feeds()
FetchAllFeeds ==
    /\ wf_pc = "fetch"
    /\ parsed_feeds' \in FetchResults
    /\ wf_log' = Append(wf_log, "fetch")
    /\ wf_pc' = "filter"
    /\ UNCHANGED <<gemini_api_key, skip_time_filter, last_run_file, file_at_start, _last_run,
                   new_items, selected_items, wf_summaries, posts, wf_raised>>
    /\ UNCHANGED <<sel_vars, cl_vars, v_vars, sc_vars>>

\* new_items: everything fetched under --no-filter, else filter_new_items;
\* "if not new_items: return"
FilterNewItems ==
    /\ wf_pc = "filter"
    /\ new_items' = IF skip_time_filter THEN AllItems(parsed_feeds, 1)
                    ELSE filter_new_items(parsed_feeds, _last_run)
    /\ wf_pc' = IF new_items' = << >> THEN "done" ELSE "select"
    /\ UNCHANGED <<gemini_api_key, skip_time_filter, last_run_file, file_at_start, _last_run,
                   parsed_feeds, selected_items, wf_summaries, posts, wf_log, wf_raised>>
    /\ UNCHANGED <<sel_vars, cl_vars, v_vars, sc_vars>>

\* selected_items = selector.select_top_items(new_items, settings.top_n_items);
\* "if not selected_items: return"
SelectItems ==
    /\ wf_pc = "select"
    /\ selected_items' = select_top_items(new_items, TopNItemsDefault, TopNItemsDefault, RunNow)
    /\ wf_log' = Append(wf_log, "select")
    /\ wf_pc' = IF selected_items' = << >> THEN "done" ELSE "summarize"
    /\ UNCHANGED <<gemini_api_key, skip_time_filter, last_run_file, file_at_start, _last_run,
                   parsed_feeds, new_items, wf_summaries, posts, wf_raised>>
    /\ UNCHANGED <<sel_vars, cl_vars, v_vars, sc_vars>>

\* summaries = summarizer.summarize_items(selected_items);
\* "if not summaries: return"
SummarizeItems ==
    /\ wf_pc = "summarize"
    /\ wf_summaries' \in SummarizeOutcomes(selected_items)
    /\ wf_log' = Append(wf_log, "backend")
    /\ wf_pc' = IF wf_summaries' = << >> THEN "done" ELSE "render"
    /\ UNCHANGED <<gemini_api_key, skip_time_filter, last_run_file, file_at_start, _last_run,
                   parsed_feeds, new_items, selected_items, posts, wf_raised>>
    /\ UNCHANGED <<sel_vars, cl_vars, v_vars, sc_vars>>

\* renderer = HTMLRenderer(); posts = renderer.create_posts_for_summaries(...):
\* the constructor raises when the style sheet is missing, a post that
\* fails to render is left out
CreatePosts ==
    /\ wf_pc = "render"
    /\ \/ /\ wf_raised' = TRUE
          /\ wf_pc' = "done"
          /\ UNCHANGED <<posts, wf_log>>
       \/ /\ \E ok \in SUBSET (1..Len(wf_summaries)) :
                posts' = PostsFor(wf_summaries, selected_items, ok)
          /\ wf_log' = Append(wf_log, "render")
          /\ wf_pc' = "mark"
          /\ UNCHANGED wf_raised
    /\ UNCHANGED <<gemini_api_key, skip_time_filter, last_run_file, file_at_start, _last_run,
                   parsed_feeds, new_items, selected_items, wf_summaries>>
    /\ UNCHANGED <<sel_vars, cl_vars, v_vars, sc_vars>>

\* variant: the timestamp is saved under --no-filter as well
MarkRunComplete_Always ==
    /\ wf_pc = "mark"
    /\ last_run_file' = [state |-> "ok", last_run |-> RunEnd]
    /\ wf_log' = Append(wf_log, "write_last_run")
    /\ wf_pc' = "export"
    /\ UNCHANGED <<gemini_api_key, skip_time_filter, file_at_start, _last_run, parsed_feeds,
                   new_items, selected_items, wf_summaries, posts, wf_raised>>
    /\ UNCHANGED <<sel_vars, cl_vars, v_vars, sc_vars>>

\* "if not skip_time_filter: feed_manager.mark_run_complete()"
MarkRunComplete ==
    /\ wf_pc = "mark"
    /\ IF skip_time_filter
       THEN UNCHANGED <<last_run_file, wf_log>>
       ELSE /\ last_run_file' = [state |-> "ok", last_run |-> RunEnd]
            /\ wf_log' = Append(wf_log, "write_last_run")
    /\ wf_pc' = "export"
    /\ UNCHANGED <<gemini_api_key, skip_time_filter, file_at_start, _last_run, parsed_feeds,
                   new_items, selected_items, wf_summaries, posts, wf_raised>>
    /\ UNCHANGED <<sel_vars, cl_vars, v_vars, sc_vars>>

\* "if posts: export_posts_json(posts, selected_items)" and the end of the run
ExportPosts ==
    /\ wf_pc = "export"
    /\ wf_log' = IF posts # << >> THEN Append(wf_log, "export") ELSE wf_log
    /\ wf_pc' = "done"
    /\ UNCHANGED <<gemini_api_key, skip_time_filter, last_run_file, file_at_start, _last_run,
                   parsed_feeds, new_items, selected_items, wf_summaries, posts, wf_raised>>
    /\ UNCHANGED <<sel_vars, cl_vars, v_vars, sc_vars>>

WorkflowNext ==
    \/ CheckConfig
    \/ LoadLastRun
    \/ FetchAllFeeds
    \/ FilterNewItems
    \/ SelectItems
    \/ SummarizeItems
    \/ CreatePosts
    \/ MarkRunComplete
    \/ ExportPosts

WorkflowSpec == WorkflowInit /\ [][WorkflowNext]_vars

(***************************************************************************)
(* Properties of the run                                                   *)
(***************************************************************************)
\* the positions of a step in the log
LogPositions(step) == { i \in 1..Len(wf_log) : wf_log[i] = step }

\* C24: when the backend credential is missing, the run performs no feed
\* fetch, no selection, no backend call and no write of the last-run
\* timestamp: it ends at the configuration check.
C24_NoWorkWithoutCredential ==
    gemini_api_key = "" =>
        /\ wf_log = << >>
        /\ last_run_file = file_at_start
        /\ wf_pc \in {"config", "done"}

\* a run without credential that has ended
C24_Witness ==
    /\ gemini_api_key = ""
    /\ wf_pc = "done"
    /\ wf_log = << >>

\* C30: the last-run timestamp is read once, when the run starts (before
\* the fetch), and written at most once, only after summarization produced
\* at least one summary and rendering finished; a run that ends early (no
\* new items, empty selection, zero summaries) or that skips the time
\* filter leaves it unchanged.
C30_ReadOnceWriteOnce ==
    /\ Cardinality(LogPositions("read_last_run")) <= 1
    /\ wf_pc \notin {"config", "load"} /\ gemini_api_key # "" =>
          /\ Len(wf_log) >= 1
          /\ wf_log[1] = "read_last_run"
    /\ Cardinality(LogPositions("write_last_run")) <= 1
    /\ \A i \in LogPositions("write_last_run") :
          /\ wf_summaries # << >>
          /\ \E j \in LogPositions("backend") : j < i
          /\ \E j \in LogPositions("render") : j < i
          /\ ~skip_time_filter
    /\ last_run_file # file_at_start => LogPositions("write_last_run") # {}
    /\ (/\ wf_pc = "done"
        /\ \/ new_items = << >>
           \/ selected_items = << >>
           \/ wf_summaries = << >>
           \/ skip_time_filter)
       => /\ LogPositions("write_last_run") = {}
          /\ last_run_file = file_at_start

\* a complete run under the time filter: the timestamp was read first and
\* written once, after rendering, although rendering made no post
C30_Witness ==
    /\ wf_pc = "done"
    /\ ~skip_time_filter
    /\ file_at_start = [state |-> "ok", last_run |-> 95]
    /\ wf_log = << "read_last_run", "fetch", "select", "backend", "render", "write_last_run" >>
    /\ posts = << >>
    /\ last_run_file = [state |-> "ok", last_run |-> RunEnd]

====
